---- MODULE Spec2Model ----
(***************************************************************************)
(* Model of scripts/fetch_rss.py: the feed loop of main that submits one   *)
(* process_entry task per feed entry to a ThreadPoolExecutor, the          *)
(* as_completed collection loop, the pool shutdown at the end of the with  *)
(* block, the category aggregation, select_top5_articles and the write of  *)
(* news.json.                                                              *)
(*                                                                         *)
(* Python values are records tagged by the field t; None is [t |-> "None"].*)
(* An article is identified by the feed and the position of its entry      *)
(* (its title, url and source), plus the category it was given.            *)
(***************************************************************************)
EXTENDS Integers, Sequences, FiniteSets, TLC

\* ---------------------------------------------------------------- bounds
\* Number of feed sources of FEEDS that are modelled.
NumFeeds == 2
\* Largest number of entries the feeds of one run hold together, when the
\* entries are of every kind.
MaxEntries == 3
\* Largest number of entries the feeds of one run hold together, when the
\* feeds are long.
MaxFeedLen == 6
\* Longest enriched sequence handed to select_top5_articles on its own.
MaxArticles == 6
\* Longest top5_indices list the ranking call answers with.
MaxIdxLen == 6
\* The integers the ranking call puts in top5_indices are -IdxSpan up to
\* IdxSpan - 1.
IdxSpan == 3
\* Number of entries submitted in the runs that fill the worker pool.
PoolTasks == 11

\* ------------------------------------------------------- program constants
\* d.entries[:5]
EntriesPerFeed == 5
\* articles[:5]
FallbackCount == 5
\* ThreadPoolExecutor(max_workers=10)
max_workers == 10

\* feed["category"] of every element of FEEDS
FeedCategory == "Business"
\* The keys of the categories dict.
CategoryKeys == <<"Tech", "Markets", "Geopolitics", "Economy", "Corporate">>

None == [t |-> "None"]

Min(a, b) == IF a < b THEN a ELSE b

\* ------------------------------------------------------------ feed entries
\* A feed entry as the collaborators see it: whether entry.title and
\* entry.link can be read, what trafilatura gives for the link, and what the
\* chat completion for the analysis prompt gives.
\*   fetch: "text" | "empty" | "none" | "raise"
\*   ai:    "object" | "empty_object" | "non_object" | "not_json" | "api_error"
\*          | "object_surrogate", an object one string of which holds a lone
\*          surrogate escape such as "\ud83d": json.loads accepts it
\*   cat:   the "category" of the answered object, "" when the key is absent
Entry(ht, hl, f, a, c) ==
    [hasTitle |-> ht, hasLink |-> hl, fetch |-> f, ai |-> a, cat |-> c]

EGood == Entry(TRUE, TRUE, "text", "object", "Tech")
EFetchNone == Entry(TRUE, TRUE, "none", "object", "Tech")
EBadJson == Entry(TRUE, TRUE, "text", "not_json", "")
ENoTitle == Entry(FALSE, TRUE, "text", "object", "Tech")
ENoLink == Entry(TRUE, FALSE, "text", "object", "Tech")

EntryKinds == {EGood, EFetchNone, EBadJson, ENoTitle, ENoLink}

\* Entries that are enriched, by what the analysis answers for "category":
\* another key of categories, no such key, a value that is no key.
EMarkets == Entry(TRUE, TRUE, "text", "object", "Markets")
ENoCat == Entry(TRUE, TRUE, "text", "object", "")
EBadCat == Entry(TRUE, TRUE, "text", "object", "Sports")
\* "category": ["Tech"], a JSON array: a Python list.
ListCategory == "[Tech]"
EListCat == Entry(TRUE, TRUE, "text", "object", ListCategory)
\* Enriched, with a string the utf-8 codec refuses.
ESurrogate == Entry(TRUE, TRUE, "text", "object_surrogate", "Tech")

CategoryKinds == {EMarkets, ENoCat, EBadCat, EListCat, ESurrogate}

\* fetch_article_content(url): the extracted text, None, or an exception.
fetch_article_content(entry) ==
    CASE entry.fetch = "text" -> [t |-> "str", empty |-> FALSE]
      [] entry.fetch = "empty" -> [t |-> "str", empty |-> TRUE]
      [] entry.fetch = "none" -> None
      [] OTHER -> [t |-> "exception"]

\* Python truth value of a modelled value.
Truthy(v) ==
    CASE v.t = "None" -> FALSE
      [] v.t = "str" -> ~v.empty
      [] v.t = "dict" -> ~v.empty
      [] OTHER -> TRUE

\* analyze_article_with_ai(content, title): the parsed JSON, or None when the
\* content is falsy, the call raises or the answer is not JSON.
analyze_article_with_ai(content, entry) ==
    IF ~Truthy(content) THEN None
    ELSE CASE entry.ai \in {"object", "object_surrogate"} ->
                [t |-> "dict", empty |-> FALSE, hasCat |-> entry.cat # "",
                 cat |-> entry.cat]
           [] entry.ai = "empty_object" ->
                [t |-> "dict", empty |-> TRUE, hasCat |-> FALSE, cat |-> ""]
           [] entry.ai = "non_object" -> [t |-> "list"]
           [] OTHER -> None

Article(f, i, c) == [t |-> "article", feed |-> f, idx |-> i, category |-> c]

\* The outcome of one process_entry(entry, feed_source) call: how the task
\* ends ("returned" or "raised"), the value it returns, and which of the two
\* steps ran to a usable result.
Outcome(st, res, fetched, analysed) ==
    [st |-> st, res |-> res, fetched |-> fetched, analysed |-> analysed]

\* process_entry building the article from the feed alone when the analysis
\* gave nothing.
process_entry_partial(entry, f, i) ==
    IF ~entry.hasTitle THEN Outcome("raised", None, FALSE, FALSE)
    ELSE IF ~entry.hasLink THEN Outcome("returned", None, FALSE, FALSE)
    ELSE LET content == fetch_article_content(entry) IN
         IF content.t = "exception" \/ ~Truthy(content)
         THEN Outcome("returned", None, FALSE, FALSE)
         ELSE LET ai_analysis == analyze_article_with_ai(content, entry) IN
              IF ~Truthy(ai_analysis) \/ ai_analysis.t # "dict"
              THEN Outcome("returned", Article(f, i, FeedCategory), TRUE, FALSE)
              ELSE Outcome("returned",
                           Article(f, i, IF ai_analysis.hasCat
                                         THEN ai_analysis.cat
                                         ELSE FeedCategory),
                           TRUE, TRUE)

process_entry(entry, f, i) ==
    IF ~entry.hasTitle
    THEN \* line 113, outside the try: entry.title raises AttributeError
         Outcome("raised", None, FALSE, FALSE)
    ELSE IF ~entry.hasLink
    THEN \* entry.link raises inside the try; the handler returns None
         Outcome("returned", None, FALSE, FALSE)
    ELSE LET content == fetch_article_content(entry) IN
         IF content.t = "exception"
         THEN Outcome("returned", None, FALSE, FALSE)
         ELSE IF ~Truthy(content)
         THEN Outcome("returned", None, FALSE, FALSE)
         ELSE LET ai_analysis == analyze_article_with_ai(content, entry) IN
              IF ~Truthy(ai_analysis)
              THEN Outcome("returned", None, TRUE, FALSE)
              ELSE IF ai_analysis.t # "dict"
              THEN \* .get on a non-dict raises; the handler returns None
                   Outcome("returned", None, TRUE, FALSE)
              ELSE Outcome("returned",
                           Article(f, i, IF ai_analysis.hasCat
                                         THEN ai_analysis.cat
                                         ELSE FeedCategory),
                           TRUE, TRUE)

\* analyze_article_with_ai requesting the completion again when the first
\* request fails.
completions_retried(content, entry) ==
    IF ~Truthy(content) THEN 0
    ELSE IF entry.ai \in {"api_error", "not_json"} THEN 2
    ELSE 1

\* How many times analyze_article_with_ai(content, title) calls
\* client.chat.completions.create: once, in no loop, past the content test.
completions_created(content, entry) ==
    IF ~Truthy(content) THEN 0 ELSE 1

\* How many analysis completions one process_entry(entry, feed_source) call
\* requests: those of analyze_article_with_ai when line 119 is reached.
analysis_calls(entry) ==
    IF ~entry.hasTitle \/ ~entry.hasLink THEN 0
    ELSE LET content == fetch_article_content(entry) IN
         IF content.t = "exception" THEN 0
         ELSE IF ~Truthy(content) THEN 0
         ELSE completions_created(content, entry)

\* ------------------------------------------------------------------ state
VARIABLES
    world,        \* what feedparser.parse gives for each feed of FEEDS
    credential,   \* whether OPENAI_API_KEY is in os.environ
    pc,           \* where main is
    fi,           \* index in FEEDS of the feed the loop of main is at
    ei,           \* index in d.entries[:5] of the entry the inner loop is at
    parsed,       \* the feeds feedparser.parse has been called for
    tasks,        \* the futures of the executor, in submission order
    tracked,      \* the futures that are keys of future_to_entry
    collected,    \* the futures as_completed has yielded
    all_articles, \* the list all_articles
    categories,   \* the dict categories (None before it is built)
    todays_brief, \* the list todays_brief (None before it is built)
    rankCalls,    \* chat completions requested by select_top5_articles
    written,      \* the documents written to news.json, in order
    sel,          \* one call of select_top5_articles taken on its own
    ranking       \* the answer the ranking call of main got (None before)

vars == <<world, credential,
          pc, fi, ei, parsed, tasks, tracked, collected, all_articles,
          categories, todays_brief, rankCalls, written, sel, ranking>>

\* What feedparser.parse(feed["url"]) gives: an exception (ok = FALSE) or a
\* result d with the sequence d.entries.
ParseError == [ok |-> FALSE, entries |-> <<>>]
Parsed(es) == [ok |-> TRUE, entries |-> es]

\* A feed of n entries of kind filler, but for entry p, which is of kind k.
Shape(n, p, k, filler) == [i \in 1..n |-> IF i = p THEN k ELSE filler]

\* The results of feedparser.parse with at most maxLen entries.
FeedResults(maxLen, kinds, fillers) ==
    {ParseError} \cup
    {Parsed(Shape(n, p, k, filler)) : n \in 0..maxLen, p \in 1..maxLen,
                                      k \in kinds, filler \in fillers}

RECURSIVE TotalEntries(_, _)
TotalEntries(w, f) ==
    IF f = 0 THEN 0 ELSE Len(w[f].entries) + TotalEntries(w, f - 1)

\* The runs whose feeds hold at most total entries together.
WorldsOf(results, total) ==
    {w \in [1..NumFeeds -> results] : TotalEntries(w, NumFeeds) <= total}

\* Short feeds of every kind of entry.
Worlds ==
    WorldsOf(FeedResults(MaxEntries, EntryKinds, {EGood, EFetchNone}),
             MaxEntries)

\* Feeds longer than d.entries[:5] keeps, of entries that fail extraction or
\* have no title.
LongWorlds ==
    WorldsOf(FeedResults(MaxFeedLen, {ENoTitle}, {EFetchNone}), MaxFeedLen)

\* d.entries[:5]
FirstEntries(d) == SubSeq(d.entries, 1, Min(Len(d.entries), EntriesPerFeed))

Terminal(task) == task.st \in {"returned", "raised"}
AllTerminal == \A t \in 1..Len(tasks) : Terminal(tasks[t])
Running == {t \in 1..Len(tasks) : tasks[t].st = "running"}
Pending == {t \in 1..Len(tasks) : tasks[t].st = "pending"}

Init ==
    /\ world \in Worlds
    /\ credential \in BOOLEAN
    /\ pc = "start"
    /\ fi = 1
    /\ ei = 1
    /\ parsed = {}
    /\ tasks = <<>>
    /\ tracked = {}
    /\ collected = {}
    /\ all_articles = <<>>
    /\ categories = None
    /\ todays_brief = None
    /\ rankCalls = 0
    /\ written = <<>>
    /\ sel = None
    /\ ranking = None

\* The same program on long feeds.
InitFeeds ==
    /\ world \in LongWorlds
    /\ credential \in BOOLEAN
    /\ pc = "start"
    /\ fi = 1
    /\ ei = 1
    /\ parsed = {}
    /\ tasks = <<>>
    /\ tracked = {}
    /\ collected = {}
    /\ all_articles = <<>>
    /\ categories = None
    /\ todays_brief = None
    /\ rankCalls = 0
    /\ written = <<>>
    /\ sel = None
    /\ ranking = None

\* Short feeds of entries that are enriched under every kind of category, or
\* fail extraction.
CategoryWorlds ==
    WorldsOf(FeedResults(MaxEntries, CategoryKinds, {EGood, EFetchNone}),
             MaxEntries)

\* The same program on entries of every kind of category.
InitCategories ==
    /\ world \in CategoryWorlds
    /\ credential \in BOOLEAN
    /\ pc = "start"
    /\ fi = 1
    /\ ei = 1
    /\ parsed = {}
    /\ tasks = <<>>
    /\ tracked = {}
    /\ collected = {}
    /\ all_articles = <<>>
    /\ categories = None
    /\ todays_brief = None
    /\ rankCalls = 0
    /\ written = <<>>
    /\ sel = None
    /\ ranking = None

\* Feeds of d.entries[:5] entries each that give PoolTasks entries together,
\* every entry of kind k.
PoolWorld(k) ==
    [f \in 1..((PoolTasks + EntriesPerFeed - 1) \div EntriesPerFeed) |->
        Parsed([i \in 1..Min(EntriesPerFeed,
                             PoolTasks - EntriesPerFeed * (f - 1)) |-> k])]

\* The same program on more entries than the pool has workers.
InitPool ==
    /\ world \in {PoolWorld(EFetchNone)}
    /\ credential \in BOOLEAN
    /\ pc = "start"
    /\ fi = 1
    /\ ei = 1
    /\ parsed = {}
    /\ tasks = <<>>
    /\ tracked = {}
    /\ collected = {}
    /\ all_articles = <<>>
    /\ categories = None
    /\ todays_brief = None
    /\ rankCalls = 0
    /\ written = <<>>
    /\ sel = None
    /\ ranking = None

\* Where main is once the body of "for feed in FEEDS" is over for feed f.
NextFeed(f) ==
    IF f + 1 > Len(world) THEN [pc |-> "collect", fi |-> f + 1]
    ELSE [pc |-> "parse", fi |-> f + 1]

\* The try statement around the whole feed loop: an exception ends the loop.
AbortFeeds(f) == [pc |-> "collect", fi |-> Len(world) + 1]

\* Where main is after the except clause of the feed loop ran for feed f.
AfterFeedError(f) == NextFeed(f)

\* The script running main() whether or not the key is set.
StartUnguarded ==
    /\ pc = "start"
    /\ pc' = "parse"
    /\ UNCHANGED <<world, credential, fi, ei, parsed, tasks, tracked,
                   collected, all_articles, categories, todays_brief,
                   rankCalls, written, sel, ranking>>

\* The script is run: client = OpenAI() of line 29, then the guard of lines
\* 188-193. With the key set main() is called. Without it the constructor of
\* the installed openai package raises, which ends the script ("crashed"),
\* or it returns and the guard prints the error ("refused").
Start ==
    /\ pc = "start"
    /\ \E raises \in IF credential THEN {FALSE} ELSE BOOLEAN :
         pc' = IF credential THEN "parse"
               ELSE IF raises THEN "crashed" ELSE "refused"
    /\ UNCHANGED <<world, credential, fi, ei, parsed, tasks, tracked,
                   collected, all_articles, categories, todays_brief,
                   rankCalls, written, sel, ranking>>

\* d = feedparser.parse(feed["url"]), line 145.
ParseFeed ==
    /\ pc = "parse"
    /\ parsed' = parsed \cup {fi}
    /\ ei' = 1
    /\ LET to == IF ~world[fi].ok THEN AfterFeedError(fi)
                 ELSE IF FirstEntries(world[fi]) = <<>> THEN NextFeed(fi)
                 ELSE [pc |-> "submit", fi |-> fi]
       IN /\ pc' = to.pc
          /\ fi' = to.fi
    /\ UNCHANGED <<world, credential,
                   tasks, tracked, collected, all_articles, categories,
                   todays_brief, rankCalls, written, sel, ranking>>

\* future = executor.submit(process_entry, entry, feed), line 148: the work
\* item is queued; the workers may start and end it before main goes on.
SubmitEntry ==
    /\ pc = "submit"
    /\ tasks' = Append(tasks, [feed |-> fi, idx |-> ei, st |-> "pending",
                               res |-> None, fetched |-> FALSE,
                               analysed |-> FALSE, calls |-> 0])
    /\ pc' = "track"
    /\ UNCHANGED <<world, credential, fi, ei, parsed, tracked, collected,
                   all_articles, categories, todays_brief, rankCalls, written,
                   sel, ranking>>

\* future_to_entry[future] = entry.title, line 149, and the step of the loop
\* of line 147: when entry.title raises the future is no key of
\* future_to_entry and the except clause of line 150 ends the feed.
TrackEntry ==
    /\ pc = "track"
    /\ LET es == FirstEntries(world[fi])
           entry == es[ei]
           to == IF ~entry.hasTitle THEN AfterFeedError(fi)
                 ELSE IF ei = Len(es) THEN NextFeed(fi)
                 ELSE [pc |-> "submit", fi |-> fi]
       IN /\ tracked' = IF entry.hasTitle THEN tracked \cup {Len(tasks)}
                        ELSE tracked
          /\ pc' = to.pc
          /\ fi' = to.fi
          /\ ei' = IF to.pc = "submit" THEN ei + 1 ELSE 1
    /\ UNCHANGED <<world, credential, parsed, tasks, collected, all_articles,
                   categories, todays_brief, rankCalls, written, sel, ranking>>

\* One thread per task: a worker is always at hand.
WorkerAlwaysFree == TRUE

\* Whether the executor has a worker thread that runs no task: it starts a
\* thread per submitted task up to max_workers threads.
WorkerFree == Cardinality(Running) < max_workers

\* A free worker thread takes the oldest work item of the executor's queue.
StartTask ==
    /\ Pending # {}
    /\ WorkerFree
    /\ LET t == CHOOSE x \in Pending : \A y \in Pending : x <= y
       IN tasks' = [tasks EXCEPT ![t].st = "running"]
    /\ UNCHANGED <<world, credential,
                   pc, fi, ei, parsed, tracked, collected, all_articles,
                   categories, todays_brief, rankCalls, written, sel, ranking>>

\* A worker finishes process_entry and sets the future's result or exception.
FinishTask ==
    \E t \in Running :
        /\ LET task == tasks[t]
               o == process_entry(world[task.feed].entries[task.idx],
                                  task.feed, task.idx)
           IN tasks' = [tasks EXCEPT ![t].st = o.st, ![t].res = o.res,
                                     ![t].fetched = o.fetched,
                                     ![t].analysed = o.analysed,
                                     ![t].calls =
                                         analysis_calls(
                                             world[task.feed].entries[task.idx])]
        /\ UNCHANGED <<world, credential,
                       pc, fi, ei, parsed, tracked, collected,
                       all_articles, categories, todays_brief, rankCalls,
                       written, sel, ranking>>

\* all_articles after the body of the as_completed loop ran for a future.
Collected(articles, task) ==
    IF task.st = "returned" /\ Truthy(task.res) THEN Append(articles, task.res)
    ELSE articles

\* One iteration of "for future in as_completed(future_to_entry)",
\* lines 153-160: as_completed yields a finished future it has not yielded.
Collect ==
    /\ pc = "collect"
    /\ \E t \in tracked \ collected :
        /\ Terminal(tasks[t])
        /\ collected' = collected \cup {t}
        /\ all_articles' = Collected(all_articles, tasks[t])
    /\ UNCHANGED <<world, credential,
                   pc, fi, ei, parsed, tasks, tracked, categories,
                   todays_brief, rankCalls, written, sel, ranking>>

\* as_completed is exhausted once every key of future_to_entry was yielded.
EndCollect ==
    /\ pc = "collect"
    /\ collected = tracked
    /\ pc' = "shutdown"
    /\ UNCHANGED <<world, credential, fi, ei, parsed, tasks, tracked, collected,
                   all_articles, categories, todays_brief, rankCalls, written, sel, ranking>>

\* shutdown(wait=False): the with block is left at once.
ShutdownNoWait == TRUE

\* What executor.shutdown(wait=True) waits for at the end of the with block.
ShutdownDone == AllTerminal

\* The with block of line 141 is left.
Shutdown ==
    /\ pc = "shutdown"
    /\ ShutdownDone
    /\ pc' = "aggregate"
    /\ UNCHANGED <<world, credential, fi, ei, parsed, tasks, tracked, collected,
                   all_articles, categories, todays_brief, rankCalls, written, sel, ranking>>

\* ------------------------------------------------- select_top5_articles
\* The answer of the ranking chat completion:
\*   [t |-> "api_error"]         client.chat.completions.create raises
\*   [t |-> "not_json"]          message.content is not JSON
\*   [t |-> "json", v |-> x]     message.content is the JSON value x
\* A JSON value x is [t |-> "list"] (any non-object) or
\* [t |-> "dict", has |-> b, top5 |-> y]: an object, b telling whether it has
\* the key top5_indices and y its value: None (null), [t |-> "int"],
\* [t |-> "str", chars |-> n] or [t |-> "list", items |-> s], each item of s
\* being [t |-> "int", v |-> i] or [t |-> "str"].
ApiError == [t |-> "api_error"]
NotJson == [t |-> "not_json"]
NonObject == [t |-> "json", v |-> [t |-> "list"]]
NoKey == [t |-> "json", v |-> [t |-> "dict", has |-> FALSE, top5 |-> None]]
WithTop5(y) == [t |-> "json", v |-> [t |-> "dict", has |-> TRUE, top5 |-> y]]
IntItem(i) == [t |-> "int", v |-> i]
StrItem == [t |-> "str"]
IndexList(s) == WithTop5([t |-> "list", items |-> s])
Ints(s) == IndexList([k \in 1..Len(s) |-> IntItem(s[k])])

\* The except clause returning articles whole.
FallbackAll(articles) == articles

\* articles[:5], the value of the except clause.
Fallback(articles) ==
    SubSeq(articles, 1, Min(Len(articles), FallbackCount))

\* A subscript giving a copy of the article, filed under the feed's category.
SubscriptCopy(articles, i) ==
    [articles[IF i >= 0 THEN i + 1 ELSE Len(articles) + i + 1]
        EXCEPT !.category = FeedCategory]

\* articles[i] of Python for an i the list accepts.
Subscript(articles, i) ==
    IF i >= 0 THEN articles[i + 1] ELSE articles[Len(articles) + i + 1]

\* Whether "i < len(articles)" keeps the integer i.
InRange(articles, i) == i < Len(articles)

\* [articles[i] for i in top5_indices if i < len(articles)], line 106: the
\* list built, or raised when the comparison or the subscript raises.
RECURSIVE Comprehension(_, _)
Comprehension(articles, items) ==
    IF items = <<>> THEN [raised |-> FALSE, out |-> <<>>]
    ELSE LET i == Head(items)
             rest == Comprehension(articles, Tail(items))
         IN IF i.t # "int" THEN [raised |-> TRUE, out |-> <<>>]
            ELSE IF ~InRange(articles, i.v) THEN rest
            ELSE IF i.v < -Len(articles) THEN [raised |-> TRUE, out |-> <<>>]
            ELSE IF rest.raised THEN rest
            ELSE [raised |-> FALSE,
                  out |-> <<Subscript(articles, i.v)>> \o rest.out]

\* select_top5_articles(articles), resp being the answer of the ranking call
\* when the function makes it.
select_top5_articles(articles, resp) ==
    IF articles = <<>> THEN <<>>
    ELSE IF resp.t # "json" THEN Fallback(articles)
    ELSE LET result == resp.v IN
         IF result.t # "dict" THEN Fallback(articles)
         ELSE LET top5_indices == IF result.has THEN result.top5
                                  ELSE [t |-> "list", items |-> <<>>]
              IN IF top5_indices.t \notin {"list", "str"}
                 THEN Fallback(articles)
                 ELSE LET items == IF top5_indices.t = "str"
                                   THEN [k \in 1..top5_indices.chars |-> StrItem]
                                   ELSE top5_indices.items
                          c == Comprehension(articles, items)
                      IN IF c.raised THEN Fallback(articles) ELSE c.out

\* select_top5_articles requesting the completion for every list.
RankingCalledAlways(articles) == TRUE

\* Whether select_top5_articles(articles) requests a chat completion.
RankingCalled(articles) == articles # <<>>

\* ------------------------------------------------ the rest of main
\* categories[cat] = [article] in place of append: the last article only.
RECURSIVE BucketLast(_, _)
BucketLast(articles, cat) ==
    IF articles = <<>> THEN <<>>
    ELSE LET rest == BucketLast(Tail(articles), cat)
         IN IF rest # <<>> THEN rest
            ELSE IF Head(articles).category = cat THEN <<Head(articles)>>
            ELSE <<>>

\* The list of the articles of a sequence whose category is cat, in order.
RECURSIVE Bucket(_, _)
Bucket(articles, cat) ==
    IF articles = <<>> THEN <<>>
    ELSE IF Head(articles).category = cat
         THEN <<Head(articles)>> \o Bucket(Tail(articles), cat)
         ELSE Bucket(Tail(articles), cat)

CategorySet == {CategoryKeys[k] : k \in 1..Len(CategoryKeys)}

\* Whether hash(category) returns: a list has no hash.
Hashable(category) == category # ListCategory

\* Whether 'article["category"] in categories' of line 165 returns for every
\* article: the test hashes the category and so raises TypeError on a list.
AggregateReturns(articles) ==
    \A k \in 1..Len(articles) : Hashable(articles[k].category)

\* Lines 163-166: the dict categories, or main ended by the TypeError.
Aggregate ==
    /\ pc = "aggregate"
    /\ categories' =
           IF AggregateReturns(all_articles)
           THEN [t |-> "dict",
                 buckets |-> [c \in CategorySet |-> Bucket(all_articles, c)]]
           ELSE categories
    /\ pc' = IF AggregateReturns(all_articles) THEN "rank" ELSE "raised"
    /\ UNCHANGED <<world, credential, fi, ei, parsed, tasks, tracked, collected,
                   all_articles, todays_brief, rankCalls, written, sel, ranking>>

\* The answers of the ranking call taken in a whole run.
MainRankResponses ==
    {ApiError, NotJson, NoKey, Ints(<<1, 0>>), Ints(<<-1>>),
     Ints(<<0, 0, 0, 0, 0, 0>>)}

\* Line 169: todays_brief = select_top5_articles(all_articles).
Rank ==
    /\ pc = "rank"
    /\ \E resp \in MainRankResponses :
         /\ todays_brief' = [t |-> "list",
                             items |-> select_top5_articles(all_articles, resp)]
         /\ ranking' = IF RankingCalled(all_articles) THEN resp ELSE None
    /\ rankCalls' = IF RankingCalled(all_articles) THEN rankCalls + 1
                    ELSE rankCalls
    /\ pc' = "write"
    /\ UNCHANGED <<world, credential, fi, ei, parsed, tasks, tracked, collected,
                   all_articles, categories, written, sel>>

\* The entry an article was made from.
EntryOf(a) == world[a.feed].entries[a.idx]

\* Whether f.write accepts the text of an article: the file encodes to utf-8,
\* ensure_ascii=False leaves a lone surrogate as it is, and the codec raises
\* UnicodeEncodeError on it.
Encodable(a) == EntryOf(a).ai # "object_surrogate"

\* The articles of a list that come before the first one f.write refuses.
RECURSIVE EncodablePrefix(_)
EncodablePrefix(articles) ==
    IF articles = <<>> \/ ~Encodable(Head(articles)) THEN <<>>
    ELSE <<Head(articles)>> \o EncodablePrefix(Tail(articles))

\* What news.json holds after open(output_path, "w") and json.dump, lines
\* 184-185: json.dump writes the keys in order, piece by piece, and the
\* pieces written before f.write raises stay in the file. A key the dump did
\* not reach is None here, a list it did not finish is "cut".
Dump(brief, cats) ==
    IF EncodablePrefix(brief.items) # brief.items
    THEN [todays_brief |-> [t |-> "cut",
                            items |-> EncodablePrefix(brief.items)],
          categories |-> None, whole |-> FALSE]
    ELSE IF \E c \in CategorySet :
                EncodablePrefix(cats.buckets[c]) # cats.buckets[c]
    THEN [todays_brief |-> brief, categories |-> [t |-> "cut"],
          whole |-> FALSE]
    ELSE [todays_brief |-> brief, categories |-> cats, whole |-> TRUE]

\* Lines 172-186: output_data is dumped to news.json; main ends, by
\* returning or by the error of the dump.
Write ==
    /\ pc = "write"
    /\ written' = Append(written, Dump(todays_brief, categories))
    /\ pc' = IF Dump(todays_brief, categories).whole THEN "done" ELSE "raised"
    /\ UNCHANGED <<world, credential, fi, ei, parsed, tasks, tracked, collected,
                   all_articles, categories, todays_brief, rankCalls, sel,
                   ranking>>

Next ==
    \/ Start
    \/ ParseFeed
    \/ SubmitEntry
    \/ TrackEntry
    \/ StartTask
    \/ FinishTask
    \/ Collect
    \/ EndCollect
    \/ Shutdown
    \/ Aggregate
    \/ Rank
    \/ Write

Spec == Init /\ [][Next]_vars

SpecFeeds == InitFeeds /\ [][Next]_vars

SpecPool == InitPool /\ [][Next]_vars

SpecCategories == InitCategories /\ [][Next]_vars

\* The steps of the main thread.
MainStep ==
    Start \/ ParseFeed \/ SubmitEntry \/ TrackEntry \/ Collect \/ EndCollect \/ Shutdown
        \/ Aggregate \/ Rank \/ Write

\* Every external call returns or raises, and the threads are scheduled
\* fairly: the main thread takes its next step when it has one, the executor
\* starts a pending task when a worker is free, and a running task ends.
Fairness ==
    /\ WF_vars(MainStep)
    /\ WF_vars(StartTask)
    /\ WF_vars(FinishTask)

SpecLive == InitCategories /\ [][Next]_vars /\ Fairness

\* ------------------------------- select_top5_articles taken on its own
\* The enriched sequences: n articles of distinct entries, in arrival order.
ArticleSeqs ==
    {[k \in 1..n |-> Article(1, k, "Tech")] : n \in 0..MaxArticles}

IndexItems == {IntItem(i) : i \in (0 - IdxSpan)..(IdxSpan - 1)} \cup {StrItem}

\* The top5_indices lists: n items x, but for item p, which is y.
IndexLists ==
    {Shape(n, p, y, x) : n \in 0..MaxIdxLen, p \in 1..MaxIdxLen,
                         x \in IndexItems, y \in IndexItems}

\* The answers of the ranking call.
RankResponses ==
    {ApiError, NotJson, NonObject, NoKey, WithTop5(None),
     WithTop5([t |-> "int"]), WithTop5([t |-> "str", chars |-> 0]),
     WithTop5([t |-> "str", chars |-> 2])}
    \cup {IndexList(s) : s \in IndexLists}

InitSelect ==
    /\ world = [f \in 1..NumFeeds |-> ParseError]
    /\ credential = TRUE
    /\ pc = "parse"
    /\ fi = 1
    /\ ei = 1
    /\ parsed = {}
    /\ tasks = <<>>
    /\ tracked = {}
    /\ collected = {}
    /\ all_articles = <<>>
    /\ categories = None
    /\ todays_brief = None
    /\ rankCalls = 0
    /\ written = <<>>
    /\ ranking = None
    /\ \E articles \in ArticleSeqs, resp \in RankResponses :
         sel = [t |-> "call", articles |-> articles, resp |-> resp]

\* select_top5_articles(articles) is called and returns.
SelectTop5 ==
    /\ sel.t = "call"
    /\ sel' = [t |-> "return", articles |-> sel.articles, resp |-> sel.resp,
               called |-> RankingCalled(sel.articles),
               result |-> select_top5_articles(sel.articles, sel.resp)]
    /\ UNCHANGED <<world, credential,
                   pc, fi, ei, parsed, tasks, tracked, collected,
                   all_articles, categories, todays_brief, rankCalls, written,
                   ranking>>

NextSelect == SelectTop5

SpecSelect == InitSelect /\ [][NextSelect]_vars

\* ----------------------------------------------------------- properties
TaskIds == 1..Len(tasks)

\* main is past the with block: at the aggregation or later.
PastBarrier == pc \in {"aggregate", "rank", "write", "done"}

\* main is past the feed loop.
PastSubmission ==
    pc \in {"collect", "shutdown", "aggregate", "rank", "write", "done"}

\* How many elements of a list are an article of entry i of feed f.
Occurrences(articles, f, i) ==
    Cardinality({k \in 1..Len(articles) :
                    /\ articles[k].t = "article"
                    /\ articles[k].feed = f
                    /\ articles[k].idx = i})

\* The tasks submitted for feed f, as positions in d.entries.
SubmittedOf(f) == {tasks[t].idx : t \in {u \in TaskIds : tasks[u].feed = f}}

\* C1: the aggregation, the ranking call and the write never start while a
\* submitted task is pending or running: once main is past the with block,
\* every submitted task has returned or raised.
C1_BarrierBeforeAggregation == PastBarrier => AllTerminal

\* A run past the barrier with several tasks, one of them a future main does
\* not hold in future_to_entry.
C1_Witness ==
    /\ pc = "aggregate"
    /\ Len(tasks) >= 2
    /\ \E t \in TaskIds : t \notin tracked

\* C2: after the barrier all_articles holds only whole articles, and holds
\* the article of a submitted entry once when its extraction and its analysis
\* both succeeded and not at all otherwise.
C2_EnrichedIffBothSucceeded ==
    PastBarrier =>
        /\ \A k \in 1..Len(all_articles) :
              /\ all_articles[k].t = "article"
              /\ \E t \in TaskIds : /\ tasks[t].feed = all_articles[k].feed
                                    /\ tasks[t].idx = all_articles[k].idx
        /\ \A t \in TaskIds :
              Occurrences(all_articles, tasks[t].feed, tasks[t].idx) =
                  IF tasks[t].fetched /\ tasks[t].analysed THEN 1 ELSE 0

\* A run past the barrier with an enriched entry, an entry whose analysis
\* failed after a successful extraction, and an entry whose extraction failed.
C2_Witness ==
    /\ PastBarrier
    /\ \E t \in TaskIds : tasks[t].fetched /\ tasks[t].analysed
    /\ \E t \in TaskIds : tasks[t].fetched /\ ~tasks[t].analysed
    /\ \E t \in TaskIds : tasks[t].st = "returned" /\ ~tasks[t].fetched

\* C3: whatever the ranking call answers, todays_brief of the written
\* document has at most 5 elements.
C3_BriefAtMostFive ==
    \A k \in 1..Len(written) : Len(written[k].todays_brief.items) <= 5

\* Whether every item of an index list is an integer.
AllInts(items) == \A k \in 1..Len(items) : items[k].t = "int"

\* The articles the indices inside [0, len(articles)) select, in the order of
\* the list, every other index giving nothing.
RECURSIVE SelectInside(_, _)
SelectInside(articles, items) ==
    IF items = <<>> THEN <<>>
    ELSE LET i == Head(items).v
         IN (IF 0 <= i /\ i < Len(articles) THEN <<articles[i + 1]>> ELSE <<>>)
            \o SelectInside(articles, Tail(items))

\* The answer is an object whose top5_indices is a list of integers.
IsIndexAnswer(resp) ==
    /\ resp.t = "json"
    /\ resp.v.t = "dict"
    /\ resp.v.has
    /\ resp.v.top5.t = "list"
    /\ AllInts(resp.v.top5.items)

\* C4: in select_top5_articles an index outside [0, len(articles)), negative
\* ones included, gives no article and is not replaced; an index inside
\* gives articles[i].
C4_OutsideIndicesDropped ==
    (sel.t = "return" /\ sel.called /\ IsIndexAnswer(sel.resp)) =>
        sel.result = SelectInside(sel.articles, sel.resp.v.top5.items)

\* Whether a list is the first min(5, len) elements of another.
IsFirstFive(result, articles) ==
    /\ Len(result) = Min(5, Len(articles))
    /\ \A k \in 1..Len(result) : result[k] = articles[k]

\* C5: when the ranking call raises, the result is the first min(5, len)
\* enriched articles in their arrival order.
C5_CallFailureGivesFirstFive ==
    (sel.t = "return" /\ sel.called /\ sel.resp.t = "api_error") =>
        IsFirstFive(sel.result, sel.articles)

\* The ranking call raised on more than 5 articles.
C5_Witness ==
    /\ sel.t = "return"
    /\ sel.called
    /\ sel.resp.t = "api_error"
    /\ Len(sel.articles) > 5
    /\ Len(sel.result) = 5

\* The answer is not JSON, not an object, an object without top5_indices, or
\* an object whose top5_indices is not a list of integers.
Malformed(resp) ==
    /\ resp.t # "api_error"
    /\ ~IsIndexAnswer(resp)

\* C6: on a malformed answer select_top5_articles returns the first 5
\* articles in input order, all of them when there are fewer.
C6_MalformedGivesFirstFive ==
    (sel.t = "return" /\ sel.called /\ Malformed(sel.resp)) =>
        IsFirstFive(sel.result, sel.articles)

\* The entries d.entries[:5] of the feeds that parsed, as <<feed, position>>.
OfferedEntries ==
    {fe \in (1..NumFeeds) \X (1..EntriesPerFeed) :
        /\ world[fe[1]].ok
        /\ fe[2] <= Len(FirstEntries(world[fe[1]]))}

\* Whether the extraction and the analysis of an entry succeed, the entry
\* taken alone.
OwnSuccess(fe) ==
    process_entry(world[fe[1]].entries[fe[2]], fe[1], fe[2]).res.t = "article"

\* Whether the task of an entry failed: it raised or returned None.
TaskFailed(fe) ==
    \E t \in TaskIds : /\ tasks[t].feed = fe[1]
                       /\ tasks[t].idx = fe[2]
                       /\ Terminal(tasks[t])
                       /\ tasks[t].res.t # "article"

\* C7: the failure of one entry's task changes the outcome of no other
\* entry: at the end of the run every other entry is enriched exactly when
\* its own extraction and analysis succeed.
C7_FailureIsolated ==
    pc = "done" =>
        \A bad \in OfferedEntries : \A fe \in OfferedEntries :
            (TaskFailed(bad) /\ fe # bad) =>
                (Occurrences(all_articles, fe[1], fe[2]) = 1 <=> OwnSuccess(fe))

\* C8: no task ends by raising: process_entry returns an article or None.
C8_NoTaskRaises == \A t \in TaskIds : tasks[t].st # "raised"

\* C9: once the feed loop is over, the tasks submitted for a feed that parsed
\* with N entries are its first min(N, 5) entries.
C9_SubmitsFirstFive ==
    PastSubmission =>
        \A f \in 1..NumFeeds :
            world[f].ok =>
                SubmittedOf(f) = 1..Min(Len(world[f].entries), 5)

\* How many entries of d the inner loop of main submits, d taken alone: the
\* first 5, up to the first one whose title cannot be read.
SubmitCount(d) ==
    LET es == FirstEntries(d)
        untitled == {k \in 1..Len(es) : ~es[k].hasTitle}
    IN IF untitled = {} THEN Len(es)
       ELSE CHOOSE k \in untitled : \A j \in untitled : k <= j

\* C10: once the feed loop is over, a feed whose parse failed has no
\* submitted task, and every later feed was parsed and has the tasks its own
\* entries give; the run goes on to the collection.
C10_ParseFailureContained ==
    PastSubmission =>
        \A f \in 1..NumFeeds :
            ~world[f].ok =>
                /\ SubmittedOf(f) = {}
                /\ \A g \in (f + 1)..NumFeeds :
                      /\ g \in parsed
                      /\ world[g].ok => SubmittedOf(g) = 1..SubmitCount(world[g])

\* A finished run whose first feed failed to parse and whose later feed had
\* more than 5 entries, 5 of them submitted.
C10_Witness ==
    /\ pc = "done"
    /\ \E f \in 1..NumFeeds : \E g \in (f + 1)..NumFeeds :
          /\ ~world[f].ok
          /\ world[g].ok
          /\ Len(world[g].entries) > 5
          /\ SubmittedOf(g) = 1..5

\* C11: in every state at most 10 process_entry tasks are running, however
\* many entries were submitted; the other submitted tasks wait in the queue.
C11_AtMostTenRunning == Cardinality(Running) <= 10

\* All 10 workers run a task while a submitted task waits in the queue.
C11_Witness ==
    /\ Cardinality(Running) = 10
    /\ Pending # {}
    /\ Len(tasks) > 10

\* The articles the tasks returned, in the order the tasks were submitted:
\* all_articles of the run in which the tasks complete in that order.
RECURSIVE InOrderFrom(_)
InOrderFrom(t) ==
    IF t > Len(tasks) THEN <<>>
    ELSE (IF tasks[t].st = "returned" /\ tasks[t].res.t = "article"
          THEN <<tasks[t].res>> ELSE <<>>) \o InOrderFrom(t + 1)

InOrderArticles == InOrderFrom(1)

Elements(s) == {s[k] : k \in 1..Len(s)}

\* C12 as stated: the written buckets, as sequences, and todays_brief are
\* those of the run in which the tasks complete in submission order, for the
\* same answer of the ranking call: the document does not depend on the
\* order in which the tasks complete.
C12_DocumentIndependentOfOrder ==
    pc = "done" =>
        /\ written[1].categories.buckets =
               [c \in CategorySet |-> Bucket(InOrderArticles, c)]
        /\ written[1].todays_brief.items =
               select_top5_articles(InOrderArticles, ranking)

\* C12 amended: whatever the order in which the tasks complete, each written
\* bucket holds the same articles, each once: the articles of its category
\* that the tasks returned.
C12_BucketContentIndependentOfOrder ==
    pc = "done" =>
        \A c \in CategorySet :
            LET bucket == written[1].categories.buckets[c]
            IN /\ Elements(bucket) =
                      {a \in Elements(InOrderArticles) : a.category = c}
               /\ Cardinality(Elements(bucket)) = Len(bucket)

\* A finished run whose tasks completed in another order than they were
\* submitted, two articles of one bucket being swapped.
C12_Witness ==
    /\ pc = "done"
    /\ all_articles # InOrderArticles
    /\ \E c \in CategorySet : Len(written[1].categories.buckets[c]) >= 2

\* C13: the category of an enriched article is the category the analysis
\* answered when that is one of Tech, Markets, Geopolitics, Economy,
\* Corporate, and the category of its feed when the answer has none or one
\* that is none of those.
C13_CategoryValidated ==
    \A k \in 1..Len(all_articles) :
        LET a == all_articles[k]
            answered == EntryOf(a).cat
        IN a.category =
               IF answered \in {"Tech", "Markets", "Geopolitics", "Economy",
                                "Corporate"}
               THEN answered ELSE FeedCategory

\* The places of the buckets of a dict of categories that hold article a.
PlacesOf(cats, a) ==
    {p \in {<<c, j>> : c \in DOMAIN cats.buckets, j \in 1..MaxArticles} :
        /\ p[2] <= Len(cats.buckets[p[1]])
        /\ cats.buckets[p[1]][p[2]] = a}

\* C14: categories has exactly the keys Tech, Markets, Geopolitics, Economy,
\* Corporate; the bucket of a key is the subsequence of all_articles, in its
\* order, of the articles of that category; an article is in at most one
\* bucket, and in none when its category is no key, and no article makes
\* the aggregation raise.
C14_BucketsPartitionByCategory ==
    /\ pc = "raised" => categories # None
    /\ categories # None =>
        /\ DOMAIN categories.buckets =
               {"Tech", "Markets", "Geopolitics", "Economy", "Corporate"}
        /\ \A c \in DOMAIN categories.buckets :
               LET OfCategory(a) == a.category = c
               IN categories.buckets[c] = SelectSeq(all_articles, OfCategory)
        /\ \A k \in 1..Len(all_articles) :
               LET a == all_articles[k]
                   n == Cardinality(PlacesOf(categories, a))
               IN /\ n <= 1
                  /\ a.category \notin DOMAIN categories.buckets => n = 0

\* C15: every element of todays_brief is an element of all_articles, the
\* list the buckets of categories were built from, and is in the bucket of
\* its category unless its category is no key of categories.
C15_BriefDrawnFromPool ==
    todays_brief # None =>
        \A j \in 1..Len(todays_brief.items) :
            LET a == todays_brief.items[j]
            IN /\ a \in Elements(all_articles)
               /\ a.category \in CategorySet =>
                      a \in Elements(categories.buckets[a.category])

\* The ranking call answered indices, and todays_brief holds an article of a
\* key of categories and an article of a category that is no key.
C15_Witness ==
    /\ todays_brief # None
    /\ ranking \in {Ints(<<1, 0>>), Ints(<<-1>>)}
    /\ \E j \in 1..Len(todays_brief.items) :
           todays_brief.items[j].category \in CategorySet
    /\ \E j \in 1..Len(todays_brief.items) :
           todays_brief.items[j].category \notin CategorySet

\* C16: when OPENAI_API_KEY is not set, no feed is parsed, no task is
\* submitted, no analysis call and no ranking call is made (the analysis
\* calls are made by the tasks only), and no document is written.
C16_NoWorkWithoutCredential ==
    ~credential =>
        /\ pc \in {"start", "refused", "crashed"}
        /\ parsed = {}
        /\ tasks = <<>>
        /\ rankCalls = 0
        /\ written = <<>>

\* The script ran to its end without the key, on feeds that have entries.
C16_Witness ==
    /\ ~credential
    /\ pc = "refused"
    /\ \E f \in 1..Len(world) : world[f].ok /\ Len(world[f].entries) > 0

\* C17: news.json is written at most once, and only when every task has
\* ended and categories and todays_brief are built; what is written holds
\* both, whole: there is no state in which a document lacking todays_brief
\* or categories has been written.
C17_WrittenOnceAndWhole ==
    /\ Len(written) <= 1
    /\ written # <<>> =>
           /\ AllTerminal
           /\ categories # None
           /\ todays_brief # None
           /\ written[1].todays_brief = todays_brief
           /\ written[1].categories = categories

\* C18: when main calls select_top5_articles with an empty all_articles, the
\* function returns the empty list and the run makes no ranking call.
C18_EmptyPoolNoRankingCall ==
    (todays_brief # None /\ all_articles = <<>>) =>
        /\ todays_brief.items = <<>>
        /\ rankCalls = 0
        /\ ranking = None

\* The selection ran on an empty all_articles in a run that submitted tasks.
C18_Witness ==
    /\ todays_brief # None
    /\ all_articles = <<>>
    /\ Len(tasks) >= 2

\* C19: a task makes exactly one analysis call when the extraction of its
\* entry returned non-empty text and none otherwise; a call that fails is not
\* made again, and its task returns None, while every task whose entry is
\* extracted and analysed returns its article.
C19_OneAnalysisCallNoRetry ==
    \A t \in TaskIds :
        LET e == EntryOf(tasks[t])
            extracted == e.hasTitle /\ e.hasLink /\ e.fetch = "text"
        IN Terminal(tasks[t]) =>
               /\ tasks[t].calls = IF extracted THEN 1 ELSE 0
               /\ (extracted /\ e.ai \in {"api_error", "not_json"}) =>
                      tasks[t].res = None
               /\ (extracted /\ e.ai = "object") => tasks[t].res.t = "article"

\* Three tasks ended: one whose analysis call failed, one whose extraction
\* gave nothing, one enriched.
C19_Witness ==
    /\ \E t \in TaskIds : /\ tasks[t].calls = 1
                          /\ tasks[t].st = "returned"
                          /\ tasks[t].res = None
    /\ \E t \in TaskIds : /\ tasks[t].calls = 0
                          /\ tasks[t].st = "returned"
                          /\ EntryOf(tasks[t]).fetch = "none"
    /\ \E t \in TaskIds : tasks[t].calls = 1 /\ tasks[t].res.t = "article"

\* C20: with the key set, every external call returning or raising and the
\* threads scheduled fairly, every run reaches the state in which main has
\* ended, every submitted task has ended and news.json holds the document.
C20_RunEndsWithDocument ==
    credential =>
        <>(/\ pc = "done"
           /\ AllTerminal
           /\ Len(written) = 1
           /\ written[1].whole)

====
